---- MODULE Spec2Model ----
(***************************************************************************)
(* Model of mavconn_interface.cpp (MAVConnInterface): the channel set, the *)
(* default libev loop thread, and the URL parser / connection factory.     *)
(*                                                                         *)
(* std::string values are sequences of one-character strings; iterators    *)
(* are 1-based indexes, end() being Len(s) + 1.                            *)
(***************************************************************************)
EXTENDS Integers, Sequences, FiniteSets, TLC

VARIABLES
    allocated_channels, \* std::set<int> MAVConnInterface::allocated_channels
    loop_joinable,      \* default_loop_thd.joinable()
    loop_started,       \* number of loop_spinner threads ever created
    crashed,            \* the process was aborted (ROS_ASSERT / UB crash)
    ros_assert_enabled, \* build option: ROS_ASSERT_ENABLED (no NDEBUG)
    conns,              \* connection objects, by slot
    last,               \* the last completed factory operation (history)
    thr,                \* per-thread position and locals (concurrent runs)
    p_in, p_out         \* input and output of a parser call

vars == <<allocated_channels, loop_joinable, loop_started, crashed,
          ros_assert_enabled, conns, last, thr, p_in, p_out>>

-----------------------------------------------------------------------------
(* Bounds *)

\* MAVLINK_COMM_NUM_BUFFERS is 16 in the MAVLink headers; the model scales
\* the pool down so that exhaustion is reached.
MAVLINK_COMM_NUM_BUFFERS == 2
\* longest host:port token enumerated for url_parse_host
MaxLen == 5
\* longest tail enumerated after a query prefix
MaxTail == 5
\* number of caller threads in the concurrent specification
NumThreads == 2

-----------------------------------------------------------------------------
(* Strings *)

Upper == <<"A","B","C","D","E","F","G","H","I","J","K","L","M",
           "N","O","P","Q","R","S","T","U","V","W","X","Y","Z">>
Lower == <<"a","b","c","d","e","f","g","h","i","j","k","l","m",
           "n","o","p","q","r","s","t","u","v","w","x","y","z">>

\* tolower(c)
tolower(c) ==
    IF \E i \in 1..26 : Upper[i] = c
    THEN Lower[CHOOSE i \in 1..26 : Upper[i] = c]
    ELSE c

\* std::transform(b, e, back_inserter(out), tolower), on s[b, e)
TransformLower(s, b, e) ==
    [i \in 1..(e - b) |-> tolower(s[b + i - 1])]

\* s[b, e) as a string (std::string::assign(b, e))
Assign(s, b, e) == SubSeq(s, b, e - 1)

\* std::find(from, s.end(), c): the first position >= from holding c, else end()
RECURSIVE Find(_, _, _)
Find(s, from, c) ==
    IF from > Len(s) THEN Len(s) + 1
    ELSE IF s[from] = c THEN from
    ELSE Find(s, from + 1, c)

\* std::search(from, s.end(), pat.begin(), pat.end()): the first position
\* >= from where pat occurs, else end()
RECURSIVE Search(_, _, _)
Search(s, from, pat) ==
    IF from + Len(pat) - 1 > Len(s) THEN Len(s) + 1
    ELSE IF SubSeq(s, from, from + Len(pat) - 1) = pat THEN from
    ELSE Search(s, from + 1, pat)

Digits == <<"0","1","2","3","4","5","6","7","8","9">>
IsDigit(c) == \E i \in 1..10 : Digits[i] = c
DigitVal(c) == (CHOOSE i \in 1..10 : Digits[i] = c) - 1
IsSpace(c) == c \in {" ", "\t", "\n", "\r", "\f"}

\* strtol's digit loop from position i with accumulated value acc:
\* <<value, number of digits consumed>>
RECURSIVE StoiDigits(_, _, _, _)
StoiDigits(s, i, acc, n) ==
    IF i <= Len(s) /\ IsDigit(s[i])
    THEN StoiDigits(s, i + 1, acc * 10 + DigitVal(s[i]), n + 1)
    ELSE <<acc, n>>

RECURSIVE SkipSpace(_, _)
SkipSpace(s, i) ==
    IF i <= Len(s) /\ IsSpace(s[i]) THEN SkipSpace(s, i + 1) ELSE i

IntMax == 2147483647

\* std::stoi(s): skips white space, takes an optional sign and the longest
\* run of decimal digits; throws std::invalid_argument when there is no
\* digit and std::out_of_range when the value does not fit an int.
StoiResult(v, ndigits) ==
    IF ndigits = 0 THEN [exc |-> "invalid_argument", val |-> 0]
    ELSE IF v > IntMax \/ v < 0 - IntMax - 1
         THEN [exc |-> "out_of_range", val |-> 0]
    ELSE [exc |-> "none", val |-> v]

StoiSigned(s, i0, d) ==
    StoiResult(IF i0 <= Len(s) /\ s[i0] = "-" THEN 0 - d[1] ELSE d[1], d[2])

StoiFrom(s, i0) ==
    StoiSigned(s, i0,
               StoiDigits(s, IF i0 <= Len(s) /\ s[i0] \in {"-", "+"}
                             THEN i0 + 1 ELSE i0, 0, 0))

stoi(s) == StoiFrom(s, SkipSpace(s, 1))

\* conversion of an int to uint8_t
ToUint8(n) == n % 256

-----------------------------------------------------------------------------
(* URL parsing *)

\* the last position holding c, else end()
RECURSIVE FindLast(_, _, _)
FindLast(s, from, c) ==
    IF from < 1 THEN Len(s) + 1
    ELSE IF s[from] = c THEN from
    ELSE FindLast(s, from - 1, c)

\* the port half of url_parse_host: port_out = std::stoi(port)
HostPort(h, port, n) ==
    [exc |-> n.exc, host_out |-> h, port |-> port, port_out |-> n.val]

\* the body of url_parse_host once the separator sep_it is found
SplitHost(host, sep_it, def_host, def_port) ==
    IF sep_it = Len(host) + 1
    THEN [exc |-> "none",
          host_out |-> IF host # <<>> THEN host ELSE def_host,
          port |-> <<>>,
          port_out |-> def_port]
    ELSE HostPort(IF sep_it = 1 THEN def_host ELSE Assign(host, 1, sep_it),
                  Assign(host, sep_it + 1, Len(host) + 1),
                  stoi(Assign(host, sep_it + 1, Len(host) + 1)))

\* a variant that splits at the rightmost colon
url_parse_host_rightmost(host, def_host, def_port) ==
    SplitHost(host, FindLast(host, Len(host), ":"), def_host, def_port)

\* url_parse_host(host, host_out, port_out, def_host, def_port); `port` is
\* the function's local string, kept in the result for inspection.
url_parse_host(host, def_host, def_port) ==
    SplitHost(host, Find(host, 1, ":"), def_host, def_port)

\* url_parse_query's result when nothing is assigned
QuerySame(sysid, compid, lg) ==
    [exc |-> "none", sysid |-> sysid, compid |-> compid, log |-> lg]

\* sysid = std::stoi(sys); compid = std::stoi(comp);
QueryAssign(s, c, sysid, compid) ==
    IF s.exc # "none"
    THEN [exc |-> s.exc, sysid |-> sysid, compid |-> compid, log |-> "none"]
    ELSE IF c.exc # "none"
    THEN [exc |-> c.exc, sysid |-> ToUint8(s.val), compid |-> compid,
          log |-> "none"]
    ELSE [exc |-> "none", sysid |-> ToUint8(s.val), compid |-> ToUint8(c.val),
          log |-> "debug"]

QueryStrictAt(query, ids2, comma_it, s, c, sysid, compid) ==
    IF comma_it = Len(query) + 1 \/ s.exc # "none" \/ c.exc # "none"
    THEN [exc |-> "DeviceError", sysid |-> sysid, compid |-> compid,
          log |-> "error"]
    ELSE QueryAssign(s, c, sysid, compid)

QueryStrictIds(query, ids2, comma_it, sysid, compid) ==
    QueryStrictAt(query, ids2, comma_it,
                  stoi(Assign(query, ids2, comma_it)),
                  stoi(Assign(query, comma_it + 1, Len(query) + 1)),
                  sysid, compid)

QueryStrictFrom(query, ids_it, sysid, compid) ==
    IF ids_it = Len(query) + 1 THEN QuerySame(sysid, compid, "warn")
    ELSE QueryStrictIds(query, ids_it + 4, Find(query, ids_it + 4, ","),
                        sysid, compid)

\* a variant that throws when the ids= value is malformed
url_parse_query_strict(query, sysid, compid) ==
    IF query = <<>> THEN QuerySame(sysid, compid, "none")
    ELSE QueryStrictFrom(query, Search(query, 1, <<"i", "d", "s", "=">>),
                         sysid, compid)

\* url_parse_query from the comma search on; ids2 is ids_it after std::advance
QueryIds(query, ids2, comma_it, sysid, compid) ==
    IF comma_it = Len(query) + 1 THEN QuerySame(sysid, compid, "error")
    ELSE QueryAssign(stoi(Assign(query, ids2, comma_it)),
                     stoi(Assign(query, comma_it + 1, Len(query) + 1)),
                     sysid, compid)

\* url_parse_query after the search for ids=
QueryFrom(query, ids_it, ids_end, sysid, compid) ==
    IF ids_it = Len(query) + 1 THEN QuerySame(sysid, compid, "warn")
    ELSE QueryIds(query, ids_it + Len(ids_end),
                  Find(query, ids_it + Len(ids_end), ","), sysid, compid)

\* url_parse_query(query, sysid, compid): sysid and compid are uint8_t
\* references; `log` is the ROS console level the call logs at.
url_parse_query(query, sysid, compid) ==
    IF query = <<>> THEN QuerySame(sysid, compid, "none")
    ELSE QueryFrom(query, Search(query, 1, <<"i", "d", "s", "=">>),
                   <<"i", "d", "s", "=">>, sysid, compid)

\* What a url_parse_* function hands to boost::make_shared, or the
\* exception it throws before constructing anything.
Throw(e) ==
    [exc |-> e, kind |-> "none", host |-> <<>>, port |-> 0,
     remote_host |-> <<>>, remote_port |-> 0, sys |-> 0, comp |-> 0]

Make(kind, host, port, rhost, rport, sys, comp) ==
    [exc |-> "none", kind |-> kind, host |-> host, port |-> port,
     remote_host |-> rhost, remote_port |-> rport, sys |-> sys, comp |-> comp]

\* one host pair followed by the query, shared shape of the serial and
\* tcp parsers
MakeOne(kind, h, q) ==
    IF h.exc # "none" THEN Throw(h.exc)
    ELSE IF q.exc # "none" THEN Throw(q.exc)
    ELSE Make(kind, h.host_out, h.port_out, <<>>, 0, q.sysid, q.compid)

ParseOne(kind, text, query, system_id, component_id, def_host, def_port) ==
    MakeOne(kind, url_parse_host(text, def_host, def_port),
            url_parse_query(query, system_id, component_id))

DevTtyACM0 == <<"/","d","e","v","/","t","t","y","A","C","M","0">>
Localhost == <<"l","o","c","a","l","h","o","s","t">>
AnyAddr == <<"0",".","0",".","0",".","0">>

url_parse_serial(path, query, system_id, component_id) ==
    ParseOne("serial", path, query, system_id, component_id, DevTtyACM0, 57600)

MakeUdp(b, r, q) ==
    IF b.exc # "none" THEN Throw(b.exc)
    ELSE IF r.exc # "none" THEN Throw(r.exc)
    ELSE IF q.exc # "none" THEN Throw(q.exc)
    ELSE Make("udp", b.host_out, b.port_out, r.host_out, r.port_out,
              q.sysid, q.compid)

\* url_parse_udp once the @ separator sep_it is found
UdpPairs(hosts, sep_it, query, system_id, component_id) ==
    IF sep_it = Len(hosts) + 1 THEN Throw("DeviceError")
    ELSE MakeUdp(url_parse_host(Assign(hosts, 1, sep_it), AnyAddr, 14555),
                 url_parse_host(Assign(hosts, sep_it + 1, Len(hosts) + 1),
                                <<>>, 14550),
                 url_parse_query(query, system_id, component_id))

url_parse_udp(hosts, query, system_id, component_id) ==
    UdpPairs(hosts, Find(hosts, 1, "@"), query, system_id, component_id)

url_parse_tcp_client(host, query, system_id, component_id) ==
    ParseOne("tcp_client", host, query, system_id, component_id, Localhost, 5760)

url_parse_tcp_server(host, query, system_id, component_id) ==
    ParseOne("tcp_server", host, query, system_id, component_id, AnyAddr, 5760)

\* a variant that spells the server scheme tcp-listen
Dispatch_tcp_listen(proto, host, path, query, system_id, component_id) ==
    IF proto = <<"u","d","p">>
    THEN url_parse_udp(host, query, system_id, component_id)
    ELSE IF proto = <<"t","c","p">>
    THEN url_parse_tcp_client(host, query, system_id, component_id)
    ELSE IF proto = <<"t","c","p","-","l","i","s","t","e","n">>
    THEN url_parse_tcp_server(host, query, system_id, component_id)
    ELSE IF proto = <<"s","e","r","i","a","l">>
    THEN url_parse_serial(path, query, system_id, component_id)
    ELSE Throw("DeviceError")

\* the scheme dispatch that ends open_url
Dispatch(proto, host, path, query, system_id, component_id) ==
    IF proto = <<"u","d","p">>
    THEN url_parse_udp(host, query, system_id, component_id)
    ELSE IF proto = <<"t","c","p">>
    THEN url_parse_tcp_client(host, query, system_id, component_id)
    ELSE IF proto = <<"t","c","p","-","l">>
    THEN url_parse_tcp_server(host, query, system_id, component_id)
    ELSE IF proto = <<"s","e","r","i","a","l">>
    THEN url_parse_serial(path, query, system_id, component_id)
    ELSE Throw("DeviceError")

\* open_url from "copy path, and query if exists" on
UrlQuery(url, proto, host, path_it, query_it, system_id, component_id) ==
    Dispatch(proto, host, Assign(url, path_it, query_it),
             Assign(url, IF query_it # Len(url) + 1 THEN query_it + 1
                         ELSE query_it, Len(url) + 1),
             system_id, component_id)

\* open_url from "copy host" on; host_it is proto_it after std::advance
UrlHost(url, proto, host_it, path_it, system_id, component_id) ==
    UrlQuery(url, proto, TransformLower(url, host_it, path_it), path_it,
             Find(url, path_it, "?"), system_id, component_id)

\* open_url after the search for ://
UrlProto(url, proto_it, proto_end, system_id, component_id) ==
    IF proto_it = Len(url) + 1
    THEN url_parse_serial(url, <<>>, system_id, component_id)
    ELSE UrlHost(url, TransformLower(url, 1, proto_it),
                 proto_it + Len(proto_end),
                 Find(url, proto_it + Len(proto_end), "/"),
                 system_id, component_id)

\* MAVConnInterface::open_url up to the transport's constructor
open_url(url, system_id, component_id) ==
    UrlProto(url, Search(url, 1, <<":", "/", "/">>), <<":", "/", "/">>,
             system_id, component_id)

-----------------------------------------------------------------------------
(* Channel registry and default loop *)

\* a variant of new_channel that scans from the top of the range
RECURSIVE new_channel_from_top(_, _)
new_channel_from_top(alloc, chan) ==
    LET c == MAVLINK_COMM_NUM_BUFFERS - 1 - chan
    IN  IF chan < MAVLINK_COMM_NUM_BUFFERS
        THEN IF c \notin alloc
             THEN [chan |-> c, set |-> alloc \cup {c}]
             ELSE new_channel_from_top(alloc, chan + 1)
        ELSE [chan |-> 0 - 1, set |-> alloc]

\* MAVConnInterface::new_channel, entered at loop variable chan: the value
\* returned and allocated_channels after the call
RECURSIVE new_channel(_, _)
new_channel(alloc, chan) ==
    IF chan < MAVLINK_COMM_NUM_BUFFERS
    THEN IF chan \notin alloc
         THEN [chan |-> chan, set |-> alloc \cup {chan}]
         ELSE new_channel(alloc, chan + 1)
    ELSE [chan |-> 0 - 1, set |-> alloc]

\* allocated_channels.erase(allocated_channels.end()): undefined behaviour
EraseEnd(alloc) ==
    { [set |-> alloc, crash |-> TRUE], [set |-> alloc, crash |-> FALSE] }
    \cup { [set |-> alloc \ {x}, crash |-> FALSE] : x \in alloc }

\* a variant of delete_channel that erases from chan to the end of the set
delete_channel_range(alloc, chan) ==
    { [set |-> {x \in alloc : x < chan}, crash |-> FALSE] }

\* a variant of delete_channel that erases nothing
delete_channel_noop(alloc, chan) ==
    { [set |-> alloc, crash |-> FALSE] }

\* MAVConnInterface::delete_channel(chan): the possible outcomes.  When chan
\* is not in the set, find() returns end() and erase(end()) is undefined
\* behaviour: the process may crash, carry on, or lose an element.
delete_channel(alloc, chan) ==
    IF chan \in alloc
    THEN { [set |-> alloc \ {chan}, crash |-> FALSE] }
    ELSE EraseEnd(alloc)

\* MAVConnInterface::channes_available
channes_available(alloc) == MAVLINK_COMM_NUM_BUFFERS - Cardinality(alloc)

\* MAVConnInterface::MAVConnInterface: takes a channel; ROS_ASSERT_MSG
\* aborts the process on -1 when assertions are compiled in, and is empty
\* otherwise, the object then keeping channel = -1.
MAVConnInterface_ctor(alloc, assert_on) ==
    LET nc == new_channel(alloc, 0)
    IN  [channel |-> nc.chan, set |-> nc.set,
         abort |-> nc.chan < 0 /\ assert_on]

\* MAVConnInterface::start_default_loop, run without interruption
start_default_loop(joinable, started) ==
    IF joinable THEN [joinable |-> joinable, started |-> started]
    ELSE [joinable |-> TRUE, started |-> started + 1]

-----------------------------------------------------------------------------
(* Parser inputs *)

\* all strings over alphabet A of length at most n
RECURSIVE StringsUpTo(_, _)
StringsUpTo(A, n) ==
    IF n = 0 THEN {<<>>}
    ELSE LET S == StringsUpTo(A, n - 1)
         IN  S \cup {Append(s, c) : s \in {t \in S : Len(t) = n - 1}, c \in A}

HostTokens == StringsUpTo({"h", ":", "1", "2"}, MaxLen)

\* the default (host, port) pairs the callers of url_parse_host pass
HostDefaults ==
    { [host |-> Localhost, port |-> 5760], [host |-> <<>>, port |-> 14550] }

QueryPrefixes ==
    { <<>>, <<"i","d","s">>, <<"i","d","s","=">>, <<"x","i","d","s","=">>,
      <<"i","d","=">>, <<"x","=">>, <<"x","=","1","&","i","d","s","=">> }

QueryTexts ==
    {p \o t : p \in QueryPrefixes, t \in StringsUpTo({"3", ",", "x"}, MaxTail)}

Schemes ==
    { <<"u","d","p">>, <<"t","c","p">>, <<"t","c","p","-","l">>,
      <<"T","c","P","-","L">>,
      <<"t","c","p","-","l","i","s","t","e","n">>,
      <<"s","e","r","i","a","l">>, <<"f","t","p">> }

HostParts ==
    { <<>>, <<"h">>, <<"h",":","1">>, <<":","2">>, <<"h",":","x">>,
      <<"@">>, <<"h",":","1","@","r",":","2">>, <<"H","@",":","2","x">>,
      <<"0",".","0",".","0",".","0",":","5","7","6","0">> }

PathParts == { <<>>, <<"/">>, <<"/","d",":","9">> }

\* a descriptor scheme://host[/path][?query] with the caller's default
\* identity (system id 1, component id 240); hasq says whether the text
\* carries a "?query" part
MkUrl(scheme, host, path, hasq, query) ==
    [type |-> "url",
     text |-> scheme \o <<":","/","/">> \o host \o path
              \o (IF hasq THEN <<"?">> \o query ELSE <<>>),
     scheme |-> scheme, host |-> host, path |-> path, hasq |-> hasq,
     query |-> query, ids |-> [sys |-> 1, comp |-> 240]]

BarePaths == { <<"/","d">>, <<"/","d",":","9">>, <<"d",":","x">>, <<>> }

UrlInputs ==
    {MkUrl(s, h, p, FALSE, <<>>) : s \in Schemes, h \in HostParts, p \in PathParts}
    \cup {MkUrl(s, <<"h",":","1">>, <<"/">>, TRUE, q) :
            s \in {<<"t","c","p">>, <<"s","e","r","i","a","l">>}, q \in QueryTexts}
    \cup {MkUrl(<<"t","c","p">>, <<"h">>, <<>>, TRUE, <<"i","d","s","=","3",",","4">>)}
    \cup {[type |-> "url", text |-> b, scheme |-> <<>>, host |-> <<>>,
           path |-> b, hasq |-> FALSE, query |-> <<>>,
           ids |-> [sys |-> 1, comp |-> 240]] : b \in BarePaths}

ParserInputs ==
    {[type |-> "host", text |-> t, def |-> d] : t \in HostTokens, d \in HostDefaults}
    \cup {[type |-> "query", text |-> q, ids |-> [sys |-> 1, comp |-> 240]] :
            q \in QueryTexts}
    \cup UrlInputs

-----------------------------------------------------------------------------
(* State that a specification leaves alone *)

Threads == 1..NumThreads

IdleThread == [pc |-> "idle", chan |-> 0, found |-> FALSE, held |-> <<>>]

NoOp == [op |-> "none", conn |-> 0, result |-> "none", chan |-> 0 - 1,
         pre |-> {}, plan |-> Throw("none")]

RegistryInit ==
    /\ allocated_channels = {}
    /\ loop_joinable = FALSE
    /\ loop_started = 0
    /\ crashed = FALSE

-----------------------------------------------------------------------------
(* SpecParse: the parser functions applied to enumerated inputs *)

InitParse ==
    /\ RegistryInit
    /\ ros_assert_enabled = TRUE
    /\ conns = <<>>
    /\ last = NoOp
    /\ thr = [t \in Threads |-> IdleThread]
    /\ p_in \in ParserInputs
    /\ p_out = <<>>

ParseHost ==
    /\ p_in.type = "host" /\ p_out = <<>>
    /\ p_out' = <<url_parse_host(p_in.text, p_in.def.host, p_in.def.port)>>
    /\ UNCHANGED <<allocated_channels, loop_joinable, loop_started, crashed,
                   ros_assert_enabled, conns, last, thr, p_in>>

ParseQuery ==
    /\ p_in.type = "query" /\ p_out = <<>>
    /\ p_out' = <<url_parse_query(p_in.text, p_in.ids.sys, p_in.ids.comp)>>
    /\ UNCHANGED <<allocated_channels, loop_joinable, loop_started, crashed,
                   ros_assert_enabled, conns, last, thr, p_in>>

ParseUrl ==
    /\ p_in.type = "url" /\ p_out = <<>>
    /\ p_out' = <<open_url(p_in.text, p_in.ids.sys, p_in.ids.comp)>>
    /\ UNCHANGED <<allocated_channels, loop_joinable, loop_started, crashed,
                   ros_assert_enabled, conns, last, thr, p_in>>

NextParse == ParseHost \/ ParseQuery \/ ParseUrl

SpecParse == InitParse /\ [][NextParse]_vars

-----------------------------------------------------------------------------
(* Spec: connections opened and closed one call at a time *)

MaxConns == MAVLINK_COMM_NUM_BUFFERS + 1
ConnIds == 1..MaxConns

NoConn == [state |-> "none", channel |-> 0 - 1]

TcpScheme == <<"t","c","p">>

\* the descriptors the callers open
OpenUrls ==
    { MkUrl(<<"u","d","p">>, <<"@">>, <<>>, FALSE, <<>>),
      MkUrl(<<"u","d","p">>, <<"h">>, <<>>, FALSE, <<>>),
      MkUrl(<<"t","c","p","-","l">>, <<>>, <<>>, FALSE, <<>>),
      MkUrl(<<"t","c","p","-","l","i","s","t","e","n">>, <<>>, <<>>, FALSE, <<>>),
      MkUrl(TcpScheme, <<"h",":","x">>, <<>>, FALSE, <<>>),
      MkUrl(TcpScheme, <<"h",":","1">>, <<"/">>, TRUE, <<"i","d","s","=","3",",","4">>),
      [type |-> "url", text |-> <<"/","d">>, scheme |-> <<>>, host |-> <<>>,
       path |-> <<"/","d">>, hasq |-> FALSE, query |-> <<>>,
       ids |-> [sys |-> 1, comp |-> 240]] }

\* what open_url's parsing makes of each of them
ParsedUrl == [u \in OpenUrls |-> open_url(u.text, u.ids.sys, u.ids.comp)]

IdleParser == [type |-> "none"]

Init ==
    /\ RegistryInit
    /\ ros_assert_enabled \in BOOLEAN
    /\ conns = [c \in ConnIds |-> NoConn]
    /\ last = NoOp
    /\ thr = [t \in Threads |-> IdleThread]
    /\ p_in = IdleParser
    /\ p_out = <<>>

FreeSlots == {c \in ConnIds : conns[c].state = "none"}
LowestFree == CHOOSE c \in FreeSlots : \A d \in FreeSlots : c <= d

\* the record of an open_url call
Opened(c, result, chan, plan) ==
    [op |-> "open", conn |-> c, result |-> result, chan |-> chan,
     pre |-> allocated_channels, plan |-> plan]

\* the construction that follows a parsed descriptor: the base class takes
\* a channel, then the transport's constructor acquires its OS resource and
\* (udp, tcp) starts the default loop.  When acquire_ok is false that
\* constructor throws DeviceError and the partly built object is torn down,
\* which gives its channel back.
Construct(plan, c, base, loop, acquire_ok) ==
    IF plan.exc # "none"
    THEN /\ last' = Opened(0, plan.exc, 0 - 1, plan)
         /\ UNCHANGED <<allocated_channels, loop_joinable, loop_started,
                        crashed, conns>>
    ELSE IF base.abort
    THEN /\ crashed' = TRUE
         /\ last' = Opened(0, "abort", base.channel, plan)
         /\ UNCHANGED <<allocated_channels, loop_joinable, loop_started, conns>>
    ELSE IF acquire_ok
    THEN /\ allocated_channels' = base.set
         /\ conns' = [conns EXCEPT ![c] =
                        [state |-> "open", channel |-> base.channel]]
         /\ loop_joinable' = (IF plan.kind = "serial" THEN loop_joinable
                              ELSE loop.joinable)
         /\ loop_started' = (IF plan.kind = "serial" THEN loop_started
                             ELSE loop.started)
         /\ last' = Opened(c, "ok", base.channel, plan)
         /\ UNCHANGED crashed
    ELSE \E o \in delete_channel(base.set, base.channel) :
         /\ allocated_channels' = o.set
         /\ crashed' = o.crash
         /\ last' = Opened(0, IF o.crash THEN "crash" ELSE "TransportError",
                           base.channel, plan)
         /\ UNCHANGED <<loop_joinable, loop_started, conns>>

\* MAVConnInterface::open_url(url, system_id, component_id)
OpenUrl(u, acquire_ok) ==
    /\ ~crashed
    /\ FreeSlots # {}
    /\ Construct(ParsedUrl[u], LowestFree,
                 MAVConnInterface_ctor(allocated_channels, ros_assert_enabled),
                 start_default_loop(loop_joinable, loop_started), acquire_ok)
    /\ UNCHANGED <<ros_assert_enabled, thr, p_in, p_out>>

\* the record of a close() call on connection c
Closed(c, result) ==
    [op |-> "close", conn |-> c, result |-> result, chan |-> conns[c].channel,
     pre |-> allocated_channels,
     plan |-> [was |-> conns[c].state,
               after_open |-> last.op = "open" /\ last.conn = c,
               open_pre |-> IF last.op = "open" /\ last.conn = c
                            THEN last.pre ELSE {},
               pre_conns |-> conns,
               pre_loop |-> <<loop_joinable, loop_started>>]]

\* close() on connection c: an open connection releases its OS resource and
\* its channel id and becomes closed; on a closed connection it does nothing.
Close(c) ==
    /\ ~crashed
    /\ conns[c].state # "none"
    /\ IF conns[c].state = "open"
       THEN \E o \in delete_channel(allocated_channels, conns[c].channel) :
              /\ allocated_channels' = o.set
              /\ crashed' = o.crash
              /\ conns' = [conns EXCEPT ![c].state = "closed"]
              /\ last' = Closed(c, IF o.crash THEN "crash" ELSE "ok")
       ELSE /\ last' = Closed(c, "ok")
            /\ UNCHANGED <<allocated_channels, crashed, conns>>
    /\ UNCHANGED <<loop_joinable, loop_started, ros_assert_enabled, thr,
                   p_in, p_out>>

\* the owner drops a closed connection: the object is destroyed and its
\* slot can hold a new connection
Destroy(c) ==
    /\ ~crashed
    /\ conns[c].state = "closed"
    /\ conns' = [conns EXCEPT ![c] = NoConn]
    /\ last' = [op |-> "destroy", conn |-> c, result |-> "ok",
                chan |-> conns[c].channel, pre |-> allocated_channels,
                plan |-> Throw("none")]
    /\ UNCHANGED <<allocated_channels, loop_joinable, loop_started, crashed,
                   ros_assert_enabled, thr, p_in, p_out>>

Next ==
    \/ \E u \in OpenUrls, ok \in BOOLEAN : OpenUrl(u, ok)
    \/ \E c \in ConnIds : Close(c)
    \/ \E c \in ConnIds : Destroy(c)

Spec == Init /\ [][Next]_vars

-----------------------------------------------------------------------------
(* SpecConc: caller threads construct and destroy connections and start  *)
(* the default loop with no lock, one statement at a time.  Each thread  *)
(* owns at most one connection; thr[t].held is <<channel>> while it      *)
(* lives.  The steps interleave at statement granularity, which is one   *)
(* family of the outcomes that the unsynchronised accesses allow.        *)

InitConc ==
    /\ RegistryInit
    /\ ros_assert_enabled \in BOOLEAN
    /\ conns = <<>>
    /\ last = NoOp
    /\ thr = [t \in Threads |-> IdleThread]
    /\ p_in = IdleParser
    /\ p_out = <<>>

ConcRest == <<conns, last, p_in, p_out, ros_assert_enabled>>

\* the constructor calls new_channel(): int chan = 0; for (chan = 0; ...
T_NewBegin(t) ==
    /\ ~crashed
    /\ thr[t].pc = "idle" /\ thr[t].held = <<>>
    /\ thr' = [thr EXCEPT ![t].pc = "nc_test", ![t].chan = 0]
    /\ UNCHANGED <<allocated_channels, loop_joinable, loop_started, crashed,
                   ConcRest>>

\* chan < MAVLINK_COMM_NUM_BUFFERS and allocated_channels.count(chan) == 0;
\* past the loop new_channel returns -1 to the constructor's ROS_ASSERT_MSG
T_NewTest(t) ==
    /\ ~crashed
    /\ thr[t].pc = "nc_test"
    /\ IF thr[t].chan < MAVLINK_COMM_NUM_BUFFERS
       THEN /\ thr' = IF thr[t].chan \notin allocated_channels
                      THEN [thr EXCEPT ![t].pc = "nc_insert"]
                      ELSE [thr EXCEPT ![t].chan = thr[t].chan + 1]
            /\ UNCHANGED crashed
       ELSE /\ crashed' = ros_assert_enabled
            /\ thr' = [thr EXCEPT ![t].pc = "idle",
                                  ![t].held = IF ros_assert_enabled THEN <<>>
                                              ELSE <<0 - 1>>]
    /\ UNCHANGED <<allocated_channels, loop_joinable, loop_started, ConcRest>>

\* allocated_channels.insert(chan); return chan; (channel = chan)
T_NewInsert(t) ==
    /\ ~crashed
    /\ thr[t].pc = "nc_insert"
    /\ allocated_channels' = allocated_channels \cup {thr[t].chan}
    /\ thr' = [thr EXCEPT ![t].pc = "idle", ![t].held = <<thr[t].chan>>]
    /\ UNCHANGED <<loop_joinable, loop_started, crashed, ConcRest>>

\* delete_channel(channel): allocated_channels.find(chan)
T_DelFind(t) ==
    /\ ~crashed
    /\ thr[t].pc = "idle" /\ thr[t].held # <<>>
    /\ thr' = [thr EXCEPT ![t].pc = "dc_erase",
                          ![t].found = thr[t].held[1] \in allocated_channels]
    /\ UNCHANGED <<allocated_channels, loop_joinable, loop_started, crashed,
                   ConcRest>>

\* allocated_channels.erase(it): it is end(), or an iterator that another
\* thread's erase has invalidated, or the element
T_DelErase(t) ==
    /\ ~crashed
    /\ thr[t].pc = "dc_erase"
    /\ \E o \in (IF thr[t].found
                 THEN delete_channel(allocated_channels, thr[t].held[1])
                 ELSE EraseEnd(allocated_channels)) :
         /\ allocated_channels' = o.set
         /\ crashed' = o.crash
    /\ thr' = [thr EXCEPT ![t].pc = "idle", ![t].held = <<>>, ![t].found = FALSE]
    /\ UNCHANGED <<loop_joinable, loop_started, ConcRest>>

\* start_default_loop: if (default_loop_thd.joinable()) return;
T_LoopCheck(t) ==
    /\ ~crashed
    /\ thr[t].pc = "idle"
    /\ ~loop_joinable
    /\ thr' = [thr EXCEPT ![t].pc = "sl_create"]
    /\ UNCHANGED <<allocated_channels, loop_joinable, loop_started, crashed,
                   ConcRest>>

\* start_default_loop returns at once when the thread is joinable
T_LoopNoop(t) ==
    /\ ~crashed
    /\ thr[t].pc = "idle"
    /\ loop_joinable
    /\ UNCHANGED vars

\* boost::thread t(loop_spinner);
T_LoopCreate(t) ==
    /\ ~crashed
    /\ thr[t].pc = "sl_create"
    /\ loop_started' = loop_started + 1
    /\ thr' = [thr EXCEPT ![t].pc = "sl_swap"]
    /\ UNCHANGED <<allocated_channels, loop_joinable, crashed, ConcRest>>

\* default_loop_thd.swap(t);
T_LoopSwap(t) ==
    /\ ~crashed
    /\ thr[t].pc = "sl_swap"
    /\ loop_joinable' = TRUE
    /\ thr' = [thr EXCEPT ![t].pc = "idle"]
    /\ UNCHANGED <<allocated_channels, loop_started, crashed, ConcRest>>

NextConc ==
    \E t \in Threads :
        \/ T_NewBegin(t) \/ T_NewTest(t) \/ T_NewInsert(t)
        \/ T_DelFind(t) \/ T_DelErase(t)
        \/ T_LoopCheck(t) \/ T_LoopNoop(t) \/ T_LoopCreate(t) \/ T_LoopSwap(t)

SpecConc == InitConc /\ [][NextConc]_vars

-----------------------------------------------------------------------------
(* Properties of the channel registry and the connections *)

AllIds == 0..(MAVLINK_COMM_NUM_BUFFERS - 1)

\* the last operation was an open_url that reached new_channel
Allocating == last.op = "open" /\ last.plan.exc = "none"

\* C1: each successful allocation returns the lowest-numbered id of
\* [0, MAVLINK_COMM_NUM_BUFFERS) that was not allocated at the call, and the
\* allocation succeeds whenever such an id exists, also after releases.
C1_LowestFreeId ==
    Allocating =>
        IF AllIds \subseteq last.pre
        THEN last.chan = 0 - 1
        ELSE /\ last.chan \in AllIds \ last.pre
             /\ \A j \in 0..(last.chan - 1) : j \in last.pre
             /\ last.result = "ok" =>
                  /\ allocated_channels = last.pre \cup {last.chan}
                  /\ conns[last.conn].channel = last.chan

\* id 0 was released while id 1 stayed allocated, and the next open got 0
C1_Witness ==
    /\ Allocating /\ last.result = "ok"
    /\ last.chan = 0 /\ 1 \in last.pre

\* C2 (as stated): no channel id is held by two live connections, under
\* any interleaving of construction and destruction on different threads.
C2_DistinctChannels ==
    \A t1, t2 \in Threads :
        (t1 # t2 /\ thr[t1].held # <<>> /\ thr[t2].held # <<>>)
            => thr[t1].held[1] # thr[t2].held[1]

\* C3 (as stated): with every id allocated, a further open fails with an
\* error raised to the caller, constructs no connection and leaves the
\* allocated set unchanged; the set never holds more than
\* MAVLINK_COMM_NUM_BUFFERS ids.
C3_ExhaustedRaises ==
    /\ Cardinality(allocated_channels) <= MAVLINK_COMM_NUM_BUFFERS
    /\ (Allocating /\ AllIds \subseteq last.pre) =>
         /\ ~crashed
         /\ last.result # "ok"
         /\ \A c \in ConnIds : conns[c].state = "open" => conns[c].channel \in AllIds
         /\ allocated_channels = last.pre

\* the last operation was close() on a connection in state `was`
ClosedFrom(was) == last.op = "close" /\ last.plan.was = was

\* C5: release(id) of an allocated id removes exactly id; an open followed
\* by the close of the connection it returned leaves the allocated set and
\* channes_available() as they were before the open.
C5_RoundTrip ==
    (ClosedFrom("open") /\ last.chan \in last.pre) =>
        /\ allocated_channels = last.pre \ {last.chan}
        /\ channes_available(allocated_channels)
             = channes_available(last.pre) + 1
        /\ last.plan.after_open =>
             /\ allocated_channels = last.plan.open_pre
             /\ channes_available(allocated_channels)
                  = MAVLINK_COMM_NUM_BUFFERS - Cardinality(last.plan.open_pre)

\* a connection was opened on id 1 while id 0 was held, then closed
C5_Witness ==
    /\ ClosedFrom("open") /\ last.plan.after_open
    /\ last.chan = 1 /\ last.plan.open_pre = {0}
    /\ allocated_channels = {0}

FailedOpen == last.op = "open" /\ last.result \notin {"ok", "abort"}

C8_OneLoopThread == loop_started <= 1

-----------------------------------------------------------------------------
(* Properties of the parser (SpecParse) *)

ParseDone == p_out # <<>>
Out == p_out[1]

HasChar(s, c) == \E i \in 1..Len(s) : s[i] = c
FirstIdx(s, c) ==
    CHOOSE k \in 1..Len(s) : s[k] = c /\ \A j \in 1..(k - 1) : s[j] # c
LastIdx(s, c) ==
    CHOOSE k \in 1..Len(s) : s[k] = c /\ \A j \in (k + 1)..Len(s) : s[j] # c
Contains(s, pat) ==
    \E i \in 1..Len(s) :
        i + Len(pat) - 1 <= Len(s) /\ SubSeq(s, i, i + Len(pat) - 1) = pat
AllDigits(s) == s # <<>> /\ \A i \in 1..Len(s) : IsDigit(s[i])
RECURSIVE DecValue(_)
DecValue(s) ==
    IF s = <<>> THEN 0
    ELSE DecValue(SubSeq(s, 1, Len(s) - 1)) * 10 + DigitVal(s[Len(s)])

\* the port a host:port token yields from the text right of its colon
PortOf(r) ==
    /\ AllDigits(r.port) => r.exc = "none" /\ r.port_out = DecValue(r.port)
    /\ (r.port = <<>> \/ ~(IsDigit(r.port[1]) \/ IsSpace(r.port[1])
                           \/ r.port[1] \in {"+", "-"}))
         => r.exc = "invalid_argument"

\* the split of token t at colon position k
SplitAt(t, k, d, r) ==
    /\ r.host_out = (IF k = 1 THEN d.host ELSE SubSeq(t, 1, k - 1))
    /\ r.port = SubSeq(t, k + 1, Len(t))
    /\ PortOf(r)

NoColon(t, d, r) ==
    /\ r.exc = "none"
    /\ r.host_out = (IF t = <<>> THEN d.host ELSE t)
    /\ r.port_out = d.port

\* C9 (as amended): a host:port token is split at its LEFTMOST colon: the
\* host is everything left of it (the default host when that is empty) and
\* the port is read from everything right of it; a token without a colon
\* is the host (the default host when empty) with the default port.
C9_LeftmostColonSplit ==
    (p_in.type = "host" /\ ParseDone) =>
        IF HasChar(p_in.text, ":")
        THEN SplitAt(p_in.text, FirstIdx(p_in.text, ":"), p_in.def, Out)
        ELSE NoColon(p_in.text, p_in.def, Out)

\* C9 (as stated): the split point is the rightmost colon.
C9_RightmostColonSplit ==
    (p_in.type = "host" /\ ParseDone) =>
        IF HasChar(p_in.text, ":")
        THEN SplitAt(p_in.text, LastIdx(p_in.text, ":"), p_in.def, Out)
        ELSE NoColon(p_in.text, p_in.def, Out)

\* the token h:1:2 was split into host h and port 1
C9_Witness ==
    /\ p_in.type = "host" /\ ParseDone
    /\ p_in.text = <<"h", ":", "1", ":", "2">>
    /\ Out.exc = "none" /\ Out.host_out = <<"h">> /\ Out.port_out = 1

IsServerUrl(scheme) ==
    /\ p_in.type = "url" /\ ParseDone
    /\ p_in.scheme = scheme /\ p_in.path = <<>> /\ ~p_in.hasq

ServerSelected ==
    /\ Out.exc # "DeviceError"
    /\ Out.exc = "none" => Out.kind = "tcp_server"
    /\ p_in.host = <<>> =>
         Out.exc = "none" /\ Out.host = AnyAddr /\ Out.port = 5760
    /\ p_in.host = <<"h", ":", "1">> =>
         Out.exc = "none" /\ Out.host = <<"h">> /\ Out.port = 1
    /\ p_in.host = AnyAddr \o <<":", "5", "7", "6", "0">> =>
         Out.exc = "none" /\ Out.host = AnyAddr /\ Out.port = 5760

\* C4 (as amended): the listening-TCP scheme is spelled tcp-l: tcp-l://host:port
\* selects the TCP server with the given bind host and port, defaulting to
\* 0.0.0.0:5760, and is not rejected as an unknown scheme.
C4_TcpLScheme ==
    (IsServerUrl(<<"t","c","p","-","l">>) \/ IsServerUrl(<<"T","c","P","-","L">>))
        => ServerSelected

\* C4 (as stated): the scheme is spelled tcp-listen.
C4_TcpListenScheme ==
    IsServerUrl(<<"t","c","p","-","l","i","s","t","e","n">>) => ServerSelected

\* tcp-l://0.0.0.0:5760 was parsed to a TCP server on 0.0.0.0:5760
C4_Witness ==
    /\ IsServerUrl(<<"t","c","p","-","l">>)
    /\ p_in.host = AnyAddr \o <<":", "5", "7", "6", "0">>
    /\ Out.kind = "tcp_server" /\ Out.host = AnyAddr /\ Out.port = 5760

\* a descriptor whose query part is p_in.query, on a parseable address
IsQueryUrl == p_in.type = "url" /\ ParseDone /\ p_in.hasq /\ p_in.path = <<"/">>

IdsKey == <<"i", "d", "s", "=">>

\* the query has the form ids=<digits>,<digits>
WellFormedIds(q) ==
    /\ Len(q) >= 7 /\ SubSeq(q, 1, 4) = IdsKey
    /\ \E k \in 6..(Len(q) - 1) :
         /\ q[k] = ","
         /\ AllDigits(SubSeq(q, 5, k - 1))
         /\ AllDigits(SubSeq(q, k + 1, Len(q)))

IdsSys(q) == DecValue(SubSeq(q, 5, FirstIdx(q, ",") - 1)) % 256
IdsComp(q) == DecValue(SubSeq(q, FirstIdx(q, ",") + 1, Len(q))) % 256

\* no comma follows the first ids= of the query
NoCommaAfterIds(q) ==
    /\ Contains(q, IdsKey)
    /\ LET i == CHOOSE i \in 1..Len(q) :
                  /\ i + 3 <= Len(q) /\ SubSeq(q, i, i + 3) = IdsKey
                  /\ \A j \in 1..(i - 1) : SubSeq(q, j, j + 3) # IdsKey
       IN  \A j \in (i + 4)..Len(q) : q[j] # ","

Constructed(r) == r.exc = "none" /\ r.kind # "none"

\* C10 (as amended): a query without ids= (an unknown key, or ids without
\* the =) and a query whose ids= has no comma do not make open fail: the
\* query is ignored and the connection is constructed with the caller's
\* default identity; a well-formed ids=<peerId>,<componentId> overrides the
\* identity with the given values modulo 256.
C10_QueryLenient ==
    /\ IsQueryUrl =>
         /\ (~Contains(p_in.query, IdsKey) \/ NoCommaAfterIds(p_in.query)) =>
              /\ Constructed(Out)
              /\ Out.sys = p_in.ids.sys /\ Out.comp = p_in.ids.comp
         /\ WellFormedIds(p_in.query) =>
              /\ Constructed(Out)
              /\ Out.sys = IdsSys(p_in.query) /\ Out.comp = IdsComp(p_in.query)
    /\ (p_in.type = "query" /\ ParseDone) =>
         /\ (p_in.text # <<>> /\ ~Contains(p_in.text, IdsKey)) =>
              /\ Out.exc = "none" /\ Out.log = "warn"
              /\ Out.sysid = p_in.ids.sys /\ Out.compid = p_in.ids.comp
         /\ NoCommaAfterIds(p_in.text) =>
              /\ Out.exc = "none" /\ Out.log = "error"
              /\ Out.sysid = p_in.ids.sys /\ Out.compid = p_in.ids.comp
         /\ WellFormedIds(p_in.text) =>
              /\ Out.exc = "none"
              /\ Out.sysid = IdsSys(p_in.text) /\ Out.compid = IdsComp(p_in.text)

\* C10 (as stated): a query that uses the ids key without the = or without
\* the comma makes open fail, so that no connection is constructed.
C10_MalformedIdsFails ==
    (/\ IsQueryUrl
     /\ Len(p_in.query) >= 3 /\ SubSeq(p_in.query, 1, 3) = <<"i", "d", "s">>
     /\ (~HasChar(p_in.query, "=") \/ ~HasChar(p_in.query, ",")))
        => ~Constructed(Out)

\* tcp://h:1/?ids=3 was opened with the default identity
C10_Witness ==
    /\ IsQueryUrl /\ p_in.query = <<"i", "d", "s", "=", "3">>
    /\ Constructed(Out) /\ Out.sys = p_in.ids.sys /\ Out.comp = p_in.ids.comp

\* tcp://h:1/?ids=333,3 was opened with system id 333 mod 256
C10_WitnessOverride ==
    /\ IsQueryUrl /\ p_in.query = <<"i", "d", "s", "=", "3", "3", "3", ",", "3">>
    /\ Constructed(Out) /\ Out.sys = 77 /\ Out.comp = 3

====
